---- MODULE Spec2Model ----
(***************************************************************************)
(* Model of the HTTP load balancer of internal/balancer: the backend list  *)
(* with its liveness flags and active-connection counters, the three       *)
(* selection algorithms, the request path (ServeHTTP and the reverse       *)
(* proxy's ErrorHandler) and the health-check loop (RunHealthChecks).      *)
(*                                                                         *)
(* Backends are numbered 1..NumBackends in configured order; 0 stands for  *)
(* a nil *BackendServer.  lb.mu is the variable mu: 0 when free, the id of *)
(* the request holding it, or HcId for the health-check goroutine.         *)
(*                                                                         *)
(* A critical section of lb.mu that blocks on nothing (round-robin and     *)
(* random selection, the ErrorHandler's marking) is one step taken when mu *)
(* is free.  The least-connections scan reads each counter under that      *)
(* backend's own mutex, which IncrementConn and DecrementConn of other     *)
(* requests take without lb.mu, so it is one step per backend; the health  *)
(* check holds lb.mu over its probes and is one step per probe.            *)
(*                                                                         *)
(* Spec is the balancer in service: one request handler per element of     *)
(* Reqs, the health-check loop, forwards that succeed or fail.             *)
(* SpecShutdown adds the cancellation of the loop's context.  SpecConc is  *)
(* concurrent handlers on the path without transport errors, SpecRR        *)
(* sequential round-robin selections from any flags and cursor.  lb.current*)
(* is a uint64; the model keeps it far below 2^64.                         *)
(*                                                                         *)
(* SpecRetry is Spec with any number of transport errors and fairness of   *)
(* the handlers and the health loop; SpecResp the request path with the    *)
(* status of the backend's answer.  SpecHc is RunHealthChecks alone with   *)
(* its probes recorded and its context cancelled, SpecHcFair the same with *)
(* fairness.  SpecRRConc is the round-robin selection statement by         *)
(* statement under concurrent callers, SpecRRMain the same with the loop   *)
(* of cmd/balancer/main.go.  SpecFail is concurrent requests of which one   *)
(* has every forward fail.                                                 *)
(***************************************************************************)
EXTENDS Integers, Sequences, FiniteSets

\* ---------------------------------------------------------------- bounds
NumBackends == 3
NumReqs == 1
NumConcReqs == 2
MaxFails == 2
MaxStartCursor == 3
MaxPicks == 6
MaxCursor == 6

\* attempts counts a request's forwards up to this value and stays there.
MaxAttempts == MaxFails + 1

\* Iterations of one round-robin scan that are followed.
MaxScanSteps == 2 * NumBackends

\* minConns := int(^uint(0) >> 1): the largest int (its value on a 32-bit build)
MaxInt == 2147483647

Backends == 1..NumBackends
Reqs == 1..NumReqs
ConcReqs == 1..NumConcReqs
HcId == -1
Nil == 0

\* BalancingAlgorithm
RoundRobin == "RoundRobin"
LeastConnections == "LeastConnections"
Random == "Random"
Algorithms == {RoundRobin, LeastConnections, Random}

VARIABLES
    algorithm,    \* lb.algorithm
    isAlive,      \* backend.IsAlive, per backend
    activeConns,  \* backend.activeConns, per backend
    current,      \* lb.current, the round-robin cursor
    mu,           \* lb.mu
    pc,           \* per request: where its handler stands
    backend,      \* per request: ServeHTTP's local `backend` (the reserved one)
    target,       \* per request: the backend whose ReverseProxy is serving it
    attempts,     \* per request: forwards started so far
    status,       \* per request: what was written to the client
    scanIdx,      \* getLeastBusyBackend: position of the range loop
    leastBusy,    \* getLeastBusyBackend: local leastBusy
    minConns,     \* getLeastBusyBackend: local minConns
    scanSeen,     \* history: the counter values the running scan has read
    failures,     \* history: transport errors so far (bounded by MaxFails)
    hcPc,         \* RunHealthChecks: "wait" | "sweep" | "returned"
    hcIdx,        \* RunHealthChecks: backend being probed
    ctxDone,      \* ctx.Done() of RunHealthChecks is closed
    cursor0,      \* history: cursor value before the recorded picks
    picks,        \* history: results of the recorded selections, in order
    probeLog,     \* history: the probes of the current sweep and their outcomes
    rrStart,      \* per caller: local `start` of the round-robin loop
    rrIdx         \* per caller: local `backend` of the round-robin loop

vars == <<algorithm, isAlive, activeConns, current, mu, pc, backend, target,
          attempts, status, scanIdx, leastBusy, minConns, scanSeen, failures,
          hcPc, hcIdx, ctxDone, cursor0, picks, probeLog, rrStart, rrIdx>>

reqVars == <<pc, backend, target, attempts, status>>
scanVars == <<scanIdx, leastBusy, minConns, scanSeen>>
hcVars == <<hcPc, hcIdx, ctxDone>>
selVars == <<cursor0, picks, probeLog, rrStart, rrIdx>>
rrVars == <<rrStart, rrIdx>>

\* ------------------------------------------------------ selection (pure)

\* The loop of getRoundRobinBackend, from cursor value cur; start is the
\* cursor value on entry.  Yields the backend returned and the new cursor.
\* Faulty variant of rrLoop: the cursor is not advanced past the backend
\* returned (lb.current++ missing before the return).
RECURSIVE rrLoopNoAdvance(_, _, _)
rrLoopNoAdvance(alive, cur, start) ==
    LET idx == cur % NumBackends
    IN  IF alive[idx + 1]
        THEN [backend |-> idx + 1, current |-> cur]
        ELSE IF (cur + 1) - start >= NumBackends
             THEN [backend |-> Nil, current |-> cur + 1]
             ELSE rrLoopNoAdvance(alive, cur + 1, start)

\* Faulty variant of rrLoop: the scan gives up one backend early.
RECURSIVE rrLoopShort(_, _, _)
rrLoopShort(alive, cur, start) ==
    LET idx == cur % NumBackends
    IN  IF alive[idx + 1]
        THEN [backend |-> idx + 1, current |-> cur + 1]
        ELSE IF (cur + 1) - start >= NumBackends - 1
             THEN [backend |-> Nil, current |-> cur + 1]
             ELSE rrLoopShort(alive, cur + 1, start)

\* Faulty variant of rrLoop: the scan stops one step late (> for >=).
RECURSIVE rrLoopLong(_, _, _)
rrLoopLong(alive, cur, start) ==
    LET idx == cur % NumBackends
    IN  IF alive[idx + 1]
        THEN [backend |-> idx + 1, current |-> cur + 1]
        ELSE IF (cur + 1) - start > NumBackends
             THEN [backend |-> Nil, current |-> cur + 1]
             ELSE rrLoopLong(alive, cur + 1, start)

RECURSIVE rrLoop(_, _, _)
rrLoop(alive, cur, start) ==
    LET idx == cur % NumBackends
    IN  IF alive[idx + 1]
        THEN [backend |-> idx + 1, current |-> cur + 1]
        ELSE IF (cur + 1) - start >= NumBackends
             THEN [backend |-> Nil, current |-> cur + 1]
             ELSE rrLoop(alive, cur + 1, start)

getRoundRobinBackend(alive, cur) ==
    IF NumBackends = 0
    THEN [backend |-> Nil, current |-> cur]
    ELSE rrLoop(alive, cur, cur)

\* getRandomBackend: the `available` slice, then any index rng.Intn can give.
Available(alive) == {b \in Backends : alive[b]}

\* Faulty variant of getRandomBackend: no check for an empty `available`.
getRandomBackendNoCheck(alive) ==
    IF Available(alive) = {} THEN Backends ELSE Available(alive)

getRandomBackend(alive) ==
    IF Available(alive) = {} THEN {Nil} ELSE Available(alive)

\* One iteration of the range loop of getLeastBusyBackend on a backend whose
\* IsAlive is `alive` and whose GetActiveConns() returned `conns`.
\* Faulty variant of leastBusyStep: dead backends are not skipped.
leastBusyStepNoAlive(b, alive, conns, lb, mc) ==
    IF conns < mc
    THEN [leastBusy |-> b, minConns |-> conns]
    ELSE [leastBusy |-> lb, minConns |-> mc]

\* Faulty variant of leastBusyStep: conns <= minConns, so a tie goes to the
\* later backend.
leastBusyStepLe(b, alive, conns, lb, mc) ==
    IF ~alive
    THEN [leastBusy |-> lb, minConns |-> mc]
    ELSE IF conns <= mc
         THEN [leastBusy |-> b, minConns |-> conns]
         ELSE [leastBusy |-> lb, minConns |-> mc]

leastBusyStep(b, alive, conns, lb, mc) ==
    IF ~alive
    THEN [leastBusy |-> lb, minConns |-> mc]
    ELSE IF conns < mc
         THEN [leastBusy |-> b, minConns |-> conns]
         ELSE [leastBusy |-> lb, minConns |-> mc]

\* ------------------------------------------------------------------ Init

Init ==
    /\ algorithm \in Algorithms
    /\ isAlive = [b \in Backends |-> TRUE]
    /\ activeConns = [b \in Backends |-> 0]
    /\ current = 0
    /\ mu = 0
    /\ pc = [r \in Reqs |-> "start"]
    /\ backend = [r \in Reqs |-> Nil]
    /\ target = [r \in Reqs |-> Nil]
    /\ attempts = [r \in Reqs |-> 0]
    /\ status = [r \in Reqs |-> "none"]
    /\ scanIdx = 0
    /\ leastBusy = Nil
    /\ minConns = MaxInt
    /\ scanSeen = <<>>
    /\ failures = 0
    /\ hcPc = "wait"
    /\ hcIdx = 0
    /\ ctxDone = FALSE
    /\ cursor0 = 0
    /\ picks = <<>>
    /\ probeLog = <<>>
    /\ rrStart = <<>>
    /\ rrIdx = <<>>

\* ---------------------------------------------------------- request path

\* What the caller of GetNextBackend does with its result b: ServeHTTP
\* (attempts = 0) answers 503 on nil and otherwise goes on to IncrementConn;
\* the ErrorHandler (attempts > 0) answers 503 on nil, which returns through
\* ServeHTTP's deferred DecrementConn, and otherwise serves the request
\* through nextBackend.ReverseProxy.
Returned(r, b) ==
    IF attempts[r] = 0
    THEN IF b = Nil
         THEN /\ status' = [status EXCEPT ![r] = "503"]
              /\ pc' = [pc EXCEPT ![r] = "done"]
              /\ UNCHANGED <<backend, target, attempts>>
         ELSE /\ backend' = [backend EXCEPT ![r] = b]
              /\ pc' = [pc EXCEPT ![r] = "reserve"]
              /\ UNCHANGED <<target, attempts, status>>
    ELSE IF b = Nil
         THEN /\ status' = [status EXCEPT ![r] = "503"]
              /\ pc' = [pc EXCEPT ![r] = "release"]
              /\ target' = [target EXCEPT ![r] = Nil]
              /\ attempts' = [attempts EXCEPT ![r] = 0]
              /\ UNCHANGED backend
         ELSE /\ target' = [target EXCEPT ![r] = b]
              /\ attempts' = [attempts EXCEPT ![r] =
                                  IF @ < MaxAttempts THEN @ + 1 ELSE @]
              /\ pc' = [pc EXCEPT ![r] = "forward"]
              /\ UNCHANGED <<backend, status>>

\* GetNextBackend under RoundRobin: Lock, getRoundRobinBackend, Unlock.  The
\* critical section blocks on nothing, so it is one step taken when mu is free.
GetNextBackendRR(r) ==
    /\ pc[r] \in {"start", "retry"}
    /\ algorithm = RoundRobin
    /\ mu = 0
    /\ LET res == getRoundRobinBackend(isAlive, current)
       IN  /\ current' = res.current
           /\ Returned(r, res.backend)
    /\ UNCHANGED <<algorithm, isAlive, activeConns, mu, failures>>
    /\ UNCHANGED <<scanVars, hcVars, selVars>>

\* GetNextBackend under Random: Lock, getRandomBackend, Unlock.
GetNextBackendRandom(r) ==
    /\ pc[r] \in {"start", "retry"}
    /\ algorithm = Random
    /\ mu = 0
    /\ \E b \in getRandomBackend(isAlive) : Returned(r, b)
    /\ UNCHANGED <<algorithm, isAlive, activeConns, current, mu, failures>>
    /\ UNCHANGED <<scanVars, hcVars, selVars>>

\* What the scan records of one backend: the counter value read, or -1 for a
\* backend skipped because it is dead.
seenOf(b) == IF isAlive[b] THEN activeConns[b] ELSE -1

\* The iteration of getLeastBusyBackend's range loop on backend i, from the
\* locals lb and mc: IsAlive is read under lb.mu, the counter through
\* GetActiveConns under the backend's own mutex.  After the last backend the
\* function returns leastBusy and the deferred lb.mu.Unlock() runs.
\* Faulty variant of LeastBusyIter: the function returns without unlocking.
LeastBusyIterNoUnlock(r, i, lb, mc) ==
    LET s == leastBusyStep(i, isAlive[i], activeConns[i], lb, mc)
    IN  IF i = NumBackends
        THEN /\ mu' = r
             /\ scanIdx' = 0
             /\ leastBusy' = Nil
             /\ minConns' = MaxInt
             /\ scanSeen' = <<>>
             /\ Returned(r, s.leastBusy)
        ELSE /\ mu' = r
             /\ scanIdx' = i + 1
             /\ leastBusy' = s.leastBusy
             /\ minConns' = s.minConns
             /\ scanSeen' = Append(scanSeen, seenOf(i))
             /\ pc' = [pc EXCEPT ![r] = "scan"]
             /\ UNCHANGED <<backend, target, attempts, status>>

LeastBusyIter(r, i, lb, mc) ==
    LET s == leastBusyStep(i, isAlive[i], activeConns[i], lb, mc)
    IN  IF i = NumBackends
        THEN /\ mu' = 0
             /\ scanIdx' = 0
             /\ leastBusy' = Nil
             /\ minConns' = MaxInt
             /\ scanSeen' = <<>>
             /\ Returned(r, s.leastBusy)
        ELSE /\ mu' = r
             /\ scanIdx' = i + 1
             /\ leastBusy' = s.leastBusy
             /\ minConns' = s.minConns
             /\ scanSeen' = Append(scanSeen, seenOf(i))
             /\ pc' = [pc EXCEPT ![r] = "scan"]
             /\ UNCHANGED <<backend, target, attempts, status>>

\* GetNextBackend under LeastConnections: lb.mu.Lock(), the entry of
\* getLeastBusyBackend and the first iteration of its loop.
LeastBusyLock(r) ==
    /\ pc[r] \in {"start", "retry"}
    /\ algorithm = LeastConnections
    /\ mu = 0
    /\ LeastBusyIter(r, 1, Nil, MaxInt)
    /\ UNCHANGED <<algorithm, isAlive, activeConns, current, failures>>
    /\ UNCHANGED <<hcVars, selVars>>

\* A later iteration of the loop, lb.mu held.
LeastBusyScan(r) ==
    /\ pc[r] = "scan"
    /\ mu = r
    /\ LeastBusyIter(r, scanIdx, leastBusy, minConns)
    /\ UNCHANGED <<algorithm, isAlive, activeConns, current, failures>>
    /\ UNCHANGED <<hcVars, selVars>>

\* BackendServer.IncrementConn / DecrementConn on counter vector c.
IncrementConn(c, b) == [c EXCEPT ![b] = @ + 1]
\* Faulty variant of DecrementConn: the deferred decrement is lost.
DecrementConnSkipped(c, b) == c
DecrementConn(c, b) == [c EXCEPT ![b] = @ - 1]

\* ServeHTTP: backend.IncrementConn(), defer backend.DecrementConn(), then
\* backend.ReverseProxy.ServeHTTP starts the first forward.
Reserve(r) ==
    /\ pc[r] = "reserve"
    /\ activeConns' = IncrementConn(activeConns, backend[r])
    /\ target' = [target EXCEPT ![r] = backend[r]]
    /\ attempts' = [attempts EXCEPT ![r] = 1]
    /\ pc' = [pc EXCEPT ![r] = "forward"]
    /\ UNCHANGED <<algorithm, isAlive, current, mu, failures, backend, status>>
    /\ UNCHANGED <<scanVars, hcVars, selVars>>

\* Status codes a backend answers with.
BackendStatus == {"200", "404", "500"}
ErrorStatus == {"404", "500"}

\* The forward completes with a response of the backend, of status `code`:
\* the ReverseProxy copies it to the client, the ErrorHandler is not called
\* (no ModifyResponse is set) and the proxies return to ServeHTTP.
\* Faulty variant of Forwarded: a backend that answers with an error status
\* is marked dead, as after a failed forward.
ForwardedMarksDead(r, code) ==
    /\ pc[r] = "forward"
    /\ status' = [status EXCEPT ![r] = code]
    /\ pc' = [pc EXCEPT ![r] = "release"]
    /\ isAlive' = IF code \in ErrorStatus
                  THEN [isAlive EXCEPT ![target[r]] = FALSE]
                  ELSE isAlive
    /\ target' = [target EXCEPT ![r] = Nil]
    /\ attempts' = [attempts EXCEPT ![r] = 0]
    /\ UNCHANGED <<algorithm, activeConns, current, mu, failures, backend>>
    /\ UNCHANGED <<scanVars, hcVars, selVars>>

Forwarded(r, code) ==
    /\ pc[r] = "forward"
    /\ status' = [status EXCEPT ![r] = code]
    /\ pc' = [pc EXCEPT ![r] = "release"]
    /\ target' = [target EXCEPT ![r] = Nil]
    /\ attempts' = [attempts EXCEPT ![r] = 0]
    /\ UNCHANGED <<algorithm, isAlive, activeConns, current, mu, failures, backend>>
    /\ UNCHANGED <<scanVars, hcVars, selVars>>

\* The forward completes with a response, its status left aside.
ForwardOk(r) == Forwarded(r, "200")

\* The forward completes with a response of any status.
ForwardResp(r) == \E code \in BackendStatus : Forwarded(r, code)

\* The ErrorHandler's first critical section on flag vector alive, for the
\* proxy of backend x: the backend whose URL is parsedUrl gets IsAlive = false.
\* Faulty variant of markDead: the flag is flipped instead of cleared.
markDeadToggle(alive, x) == [alive EXCEPT ![x] = ~@]
\* Faulty variant of markDead: the comparison matches every backend and the
\* loop does not stop at the first.
markDeadAll(alive, x) == [b \in Backends |-> FALSE]
markDead(alive, x) == [alive EXCEPT ![x] = FALSE]

\* The forward to target[r] fails with a transport error: that backend's
\* proxy calls its ErrorHandler, which locks lb.mu, marks the backend dead and
\* unlocks.  The handler then stands before its call of GetNextBackend.
ErrorHandlerStep(r) ==
    /\ pc[r] = "forward"
    /\ mu = 0
    /\ isAlive' = markDead(isAlive, target[r])
    /\ pc' = [pc EXCEPT ![r] = "retry"]
    /\ UNCHANGED <<algorithm, activeConns, current, mu>>
    /\ UNCHANGED <<backend, target, attempts, status, scanVars, hcVars, selVars>>

\* The same, the transport errors counted and at most MaxFails of them.
ErrorHandler(r) ==
    /\ failures < MaxFails
    /\ ErrorHandlerStep(r)
    /\ failures' = failures + 1

\* The same, any number of transport errors (under RoundRobin, where every
\* selection moves the cursor on, as long as the cursor is below MaxCursor).
ErrorHandlerAny(r) ==
    /\ algorithm = RoundRobin => current < MaxCursor
    /\ ErrorHandlerStep(r)
    /\ UNCHANGED failures

\* ServeHTTP returns: the deferred backend.DecrementConn() runs.
Release(r) ==
    /\ pc[r] = "release"
    /\ activeConns' = DecrementConn(activeConns, backend[r])
    /\ backend' = [backend EXCEPT ![r] = Nil]
    /\ pc' = [pc EXCEPT ![r] = "done"]
    /\ UNCHANGED <<algorithm, isAlive, current, mu, failures, target, attempts, status>>
    /\ UNCHANGED <<scanVars, hcVars, selVars>>

\* --------------------------------------------------------- health checks

\* RunHealthChecks: wasAlive != nowAlive => backend.IsAlive = nowAlive.
setProbed(alive, b, nowAlive) ==
    IF alive[b] # nowAlive THEN [alive EXCEPT ![b] = nowAlive] ELSE alive

\* case <-ticker.C: lb.mu.Lock() and the start of the sweep (everything but
\* the history variables).
HcTickStep ==
    /\ hcPc = "wait"
    /\ mu = 0
    /\ mu' = HcId
    /\ hcPc' = "sweep"
    /\ hcIdx' = 1
    /\ UNCHANGED <<algorithm, isAlive, activeConns, current, failures, ctxDone>>
    /\ UNCHANGED <<reqVars, scanVars>>

HcTick == HcTickStep /\ UNCHANGED selVars

\* One iteration of the sweep, in which CheckBackendHealth returned nowAlive;
\* after the last backend lb.mu is unlocked.
\* Faulty variant of HcProbeStep: lb.mu.Unlock() is missing after the sweep.
HcProbeStepNoUnlock(nowAlive) ==
    /\ hcPc = "sweep"
    /\ isAlive' = setProbed(isAlive, hcIdx, nowAlive)
    /\ IF hcIdx = NumBackends
       THEN /\ hcPc' = "wait"
            /\ hcIdx' = 0
            /\ UNCHANGED mu
       ELSE /\ hcIdx' = hcIdx + 1
            /\ UNCHANGED <<mu, hcPc>>
    /\ UNCHANGED <<algorithm, activeConns, current, failures, ctxDone>>
    /\ UNCHANGED <<reqVars, scanVars>>

HcProbeStep(nowAlive) ==
    /\ hcPc = "sweep"
    /\ isAlive' = setProbed(isAlive, hcIdx, nowAlive)
    /\ IF hcIdx = NumBackends
       THEN /\ mu' = 0
            /\ hcPc' = "wait"
            /\ hcIdx' = 0
       ELSE /\ hcIdx' = hcIdx + 1
            /\ UNCHANGED <<mu, hcPc>>
    /\ UNCHANGED <<algorithm, activeConns, current, failures, ctxDone>>
    /\ UNCHANGED <<reqVars, scanVars>>

\* The probe with any return value of CheckBackendHealth.
HcProbe == (\E nowAlive \in BOOLEAN : HcProbeStep(nowAlive)) /\ UNCHANGED selVars

\* What client.Get can give CheckBackendHealth: an error (a transport error
\* or the 5 s client timeout) or a response with a status code.
ProbeResults ==
    {[err |-> TRUE, StatusCode |-> 0]} \cup
    {[err |-> FALSE, StatusCode |-> c] : c \in {200, 399, 400}}

\* http.StatusBadRequest
StatusBadRequest == 400

\* Faulty variant of CheckBackendHealth: status 400 counts as alive.
CheckBackendHealthLe(resp) ==
    IF resp.err THEN FALSE ELSE resp.StatusCode <= StatusBadRequest

\* CheckBackendHealth on the result resp of client.Get.
CheckBackendHealth(resp) ==
    IF resp.err THEN FALSE ELSE resp.StatusCode < StatusBadRequest

\* The tick and the probe with the sweep recorded in probeLog: which backend
\* was probed, its IsAlive before (wasAlive), what client.Get gave, and
\* whether ctx was already cancelled when the probe returned (afterCancel).
HcTickLogged ==
    /\ HcTickStep
    /\ probeLog' = <<>>
    /\ UNCHANGED <<cursor0, picks, rrVars>>

HcProbeLogged ==
    /\ \E resp \in ProbeResults :
          /\ HcProbeStep(CheckBackendHealth(resp))
          /\ probeLog' = Append(probeLog, [backend |-> hcIdx,
                                           wasAlive |-> isAlive[hcIdx],
                                           resp |-> resp,
                                           afterCancel |-> ctxDone])
    /\ UNCHANGED <<cursor0, picks, rrVars>>

\* The context given to RunHealthChecks is cancelled.
Cancel ==
    /\ ~ctxDone
    /\ ctxDone' = TRUE
    /\ UNCHANGED <<algorithm, isAlive, activeConns, current, mu, failures>>
    /\ UNCHANGED <<hcPc, hcIdx, reqVars, scanVars, selVars>>

\* case <-ctx.Done(): return.
\* Faulty variant of HcReturn: the case goes round the loop again.
HcReturnContinue ==
    /\ hcPc = "wait"
    /\ ctxDone
    /\ UNCHANGED vars

HcReturn ==
    /\ hcPc = "wait"
    /\ ctxDone
    /\ hcPc' = "returned"
    /\ UNCHANGED <<algorithm, isAlive, activeConns, current, mu, failures>>
    /\ UNCHANGED <<hcIdx, ctxDone, reqVars, scanVars, selVars>>

\* ------------------------------------------------------------------ Spec

Next ==
    \/ \E r \in DOMAIN pc : GetNextBackendRR(r)
    \/ \E r \in DOMAIN pc : GetNextBackendRandom(r)
    \/ \E r \in DOMAIN pc : LeastBusyLock(r)
    \/ \E r \in DOMAIN pc : LeastBusyScan(r)
    \/ \E r \in DOMAIN pc : Reserve(r)
    \/ \E r \in DOMAIN pc : ForwardOk(r)
    \/ \E r \in DOMAIN pc : ErrorHandler(r)
    \/ \E r \in DOMAIN pc : Release(r)
    \/ HcTick
    \/ HcProbe

Spec == Init /\ [][Next]_vars

\* The same with the shutdown of the health-check loop.
NextShutdown == Next \/ Cancel \/ HcReturn

SpecShutdown == Init /\ [][NextShutdown]_vars

\* Concurrent requests against backends that answer, RunHealthChecks not
\* started (NewLoadBalancer does not start it): the liveness flags are any
\* the balancer can have been left with, and NumConcReqs handlers run ServeHTTP.
InitConc ==
    /\ algorithm \in Algorithms
    /\ isAlive \in [Backends -> BOOLEAN]
    /\ activeConns = [b \in Backends |-> 0]
    /\ current = 0
    /\ mu = 0
    /\ pc = [r \in ConcReqs |-> "start"]
    /\ backend = [r \in ConcReqs |-> Nil]
    /\ target = [r \in ConcReqs |-> Nil]
    /\ attempts = [r \in ConcReqs |-> 0]
    /\ status = [r \in ConcReqs |-> "none"]
    /\ scanIdx = 0
    /\ leastBusy = Nil
    /\ minConns = MaxInt
    /\ scanSeen = <<>>
    /\ failures = 0
    /\ hcPc = "wait"
    /\ hcIdx = 0
    /\ ctxDone = FALSE
    /\ cursor0 = 0
    /\ picks = <<>>
    /\ probeLog = <<>>
    /\ rrStart = <<>>
    /\ rrIdx = <<>>

NextConc ==
    \/ \E r \in DOMAIN pc : GetNextBackendRR(r)
    \/ \E r \in DOMAIN pc : GetNextBackendRandom(r)
    \/ \E r \in DOMAIN pc : LeastBusyLock(r)
    \/ \E r \in DOMAIN pc : LeastBusyScan(r)
    \/ \E r \in DOMAIN pc : Reserve(r)
    \/ \E r \in DOMAIN pc : ForwardOk(r)
    \/ \E r \in DOMAIN pc : Release(r)

SpecConc == InitConc /\ [][NextConc]_vars

\* Sequential calls of GetNextBackend under RoundRobin, no request being
\* served: the flags and the cursor are any the balancer can have reached.
InitRR ==
    /\ algorithm = RoundRobin
    /\ isAlive \in [Backends -> BOOLEAN]
    /\ activeConns = [b \in Backends |-> 0]
    /\ current \in 0..MaxStartCursor
    /\ cursor0 = current
    /\ picks = <<>>
    /\ probeLog = <<>>
    /\ rrStart = <<>>
    /\ rrIdx = <<>>
    /\ mu = 0
    /\ pc = <<>>
    /\ backend = <<>>
    /\ target = <<>>
    /\ attempts = <<>>
    /\ status = <<>>
    /\ scanIdx = 0
    /\ leastBusy = Nil
    /\ minConns = MaxInt
    /\ scanSeen = <<>>
    /\ failures = 0
    /\ hcPc = "wait"
    /\ hcIdx = 0
    /\ ctxDone = FALSE

\* GetNextBackend called directly: Lock, getRoundRobinBackend, Unlock.
CallGetNextBackend ==
    /\ algorithm = RoundRobin
    /\ mu = 0
    /\ Len(picks) < MaxPicks
    /\ LET res == getRoundRobinBackend(isAlive, current)
       IN  /\ current' = res.current
           /\ picks' = Append(picks, res.backend)
    /\ UNCHANGED <<algorithm, isAlive, activeConns, mu, failures, cursor0>>
    /\ UNCHANGED <<reqVars, scanVars, hcVars, probeLog, rrVars>>

NextRR == CallGetNextBackend

SpecRR == InitRR /\ [][NextRR]_vars

\* GetNextBackend under RoundRobin statement by statement, called again and
\* again by the callers in DOMAIN pc; the results are recorded in picks in
\* the order of the returns.

\* sync.Mutex.Lock on lb.mu can return.
\* Faulty variant of CanLock: the lock excludes nobody.
CanLockAlways(m) == TRUE
CanLock(m) == m = 0

\* lb.mu.Lock(); start := lb.current
RRLock(p) ==
    /\ pc[p] = "start"
    /\ algorithm = RoundRobin
    /\ Len(picks) < MaxPicks
    /\ CanLock(mu)
    /\ mu' = p
    /\ rrStart' = [rrStart EXCEPT ![p] = current]
    /\ pc' = [pc EXCEPT ![p] = "loop"]
    /\ UNCHANGED <<algorithm, isAlive, activeConns, current, failures>>
    /\ UNCHANGED <<backend, target, attempts, status, scanVars, hcVars>>
    /\ UNCHANGED <<cursor0, picks, probeLog, rrIdx>>

\* backend := lb.backends[lb.current % len(lb.backends)], at most MaxScanSteps
\* times in one call.
RRRead(p) ==
    /\ pc[p] = "loop"
    /\ current - rrStart[p] < MaxScanSteps
    /\ rrIdx' = [rrIdx EXCEPT ![p] = (current % NumBackends) + 1]
    /\ pc' = [pc EXCEPT ![p] = "check"]
    /\ UNCHANGED <<algorithm, isAlive, activeConns, current, mu, failures>>
    /\ UNCHANGED <<backend, target, attempts, status, scanVars, hcVars>>
    /\ UNCHANGED <<cursor0, picks, probeLog, rrStart>>

\* The loop's exit test on the cursor just incremented.
rrBreak(cur, start) == cur - start >= NumBackends
\* The exit test of cmd/balancer/main.go and of RoundRobinAlgo.
rrBreakMain(cur, start) == cur = start

\* The rest of the iteration: lb.current++, return the backend read if it is
\* alive, leave the loop and return nil if `brk`, else go round again.  A
\* return runs the deferred lb.mu.Unlock().
RRAdvanceStep(p, brk) ==
    /\ pc[p] = "check"
    /\ current' = current + 1
    /\ IF isAlive[rrIdx[p]] \/ brk
       THEN /\ picks' = Append(picks, IF isAlive[rrIdx[p]] THEN rrIdx[p] ELSE Nil)
            /\ mu' = 0
            /\ pc' = [pc EXCEPT ![p] = "start"]
       ELSE /\ pc' = [pc EXCEPT ![p] = "loop"]
            /\ UNCHANGED <<picks, mu>>
    /\ UNCHANGED <<algorithm, isAlive, activeConns, failures>>
    /\ UNCHANGED <<backend, target, attempts, status, scanVars, hcVars>>
    /\ UNCHANGED <<cursor0, probeLog, rrVars>>

\* getRoundRobinBackend of internal/balancer.
RRAdvance(p) == RRAdvanceStep(p, rrBreak(current + 1, rrStart[p]))

\* getRoundRobinBackend of cmd/balancer/main.go (RoundRobinAlgo.GetNextBackend
\* has the same loop).
RRAdvanceMain(p) == RRAdvanceStep(p, rrBreakMain(current + 1, rrStart[p]))

InitRRConc ==
    /\ algorithm = RoundRobin
    /\ isAlive \in [Backends -> BOOLEAN]
    /\ activeConns = [b \in Backends |-> 0]
    /\ current \in 0..MaxStartCursor
    /\ cursor0 = current
    /\ picks = <<>>
    /\ probeLog = <<>>
    /\ rrStart = [p \in ConcReqs |-> 0]
    /\ rrIdx = [p \in ConcReqs |-> Nil]
    /\ mu = 0
    /\ pc = [p \in ConcReqs |-> "start"]
    /\ backend = [p \in ConcReqs |-> Nil]
    /\ target = [p \in ConcReqs |-> Nil]
    /\ attempts = [p \in ConcReqs |-> 0]
    /\ status = [p \in ConcReqs |-> "none"]
    /\ scanIdx = 0
    /\ leastBusy = Nil
    /\ minConns = MaxInt
    /\ scanSeen = <<>>
    /\ failures = 0
    /\ hcPc = "wait"
    /\ hcIdx = 0
    /\ ctxDone = FALSE

NextRRConc ==
    \/ \E p \in DOMAIN pc : RRLock(p)
    \/ \E p \in DOMAIN pc : RRRead(p)
    \/ \E p \in DOMAIN pc : RRAdvance(p)

SpecRRConc == InitRRConc /\ [][NextRRConc]_vars

NextRRMain ==
    \/ \E p \in DOMAIN pc : RRLock(p)
    \/ \E p \in DOMAIN pc : RRRead(p)
    \/ \E p \in DOMAIN pc : RRAdvanceMain(p)

SpecRRMain == InitRRConc /\ [][NextRRMain]_vars

\* Requests against backends that answer with any status or fail the
\* forward, RunHealthChecks not started.
NextResp ==
    \/ \E r \in DOMAIN pc : GetNextBackendRR(r)
    \/ \E r \in DOMAIN pc : GetNextBackendRandom(r)
    \/ \E r \in DOMAIN pc : LeastBusyLock(r)
    \/ \E r \in DOMAIN pc : LeastBusyScan(r)
    \/ \E r \in DOMAIN pc : Reserve(r)
    \/ \E r \in DOMAIN pc : ForwardResp(r)
    \/ \E r \in DOMAIN pc : ErrorHandler(r)
    \/ \E r \in DOMAIN pc : Release(r)

SpecResp == Init /\ [][NextResp]_vars

\* Concurrent requests against healthy backends, RunHealthChecks not
\* started: every forward of request FailingReq fails (its client has gone
\* or its deadline has passed, so each ReverseProxy.ServeHTTP on its context
\* ends in the ErrorHandler), the forwards of the others succeed.
FailingReq == 1

InitFail ==
    /\ InitConc
    /\ isAlive = [b \in Backends |-> TRUE]

NextFail ==
    \/ \E r \in DOMAIN pc : GetNextBackendRR(r)
    \/ \E r \in DOMAIN pc : GetNextBackendRandom(r)
    \/ \E r \in DOMAIN pc : LeastBusyLock(r)
    \/ \E r \in DOMAIN pc : LeastBusyScan(r)
    \/ \E r \in DOMAIN pc : Reserve(r)
    \/ \E r \in DOMAIN pc \ {FailingReq} : ForwardOk(r)
    \/ ErrorHandlerAny(FailingReq)
    \/ \E r \in DOMAIN pc : Release(r)

SpecFail == InitFail /\ [][NextFail]_vars

\* The balancer in service with no limit on the transport errors.
NextRetry ==
    \/ \E r \in DOMAIN pc : GetNextBackendRR(r)
    \/ \E r \in DOMAIN pc : GetNextBackendRandom(r)
    \/ \E r \in DOMAIN pc : LeastBusyLock(r)
    \/ \E r \in DOMAIN pc : LeastBusyScan(r)
    \/ \E r \in DOMAIN pc : Reserve(r)
    \/ \E r \in DOMAIN pc : ForwardOk(r)
    \/ \E r \in DOMAIN pc : ErrorHandlerAny(r)
    \/ \E r \in DOMAIN pc : Release(r)
    \/ HcTick
    \/ HcProbe

\* A step of request r's handler.
HandlerStep(r) ==
    \/ GetNextBackendRR(r)
    \/ GetNextBackendRandom(r)
    \/ LeastBusyLock(r)
    \/ LeastBusyScan(r)
    \/ Reserve(r)
    \/ ForwardOk(r)
    \/ ErrorHandlerAny(r)
    \/ Release(r)

\* Every handler goes on running, lb.mu is handed to a handler that keeps
\* asking for it, every forward and every probe returns; which forwards fail
\* and what the probes answer is left open.
SpecRetry ==
    /\ Init
    /\ [][NextRetry]_vars
    /\ \A r \in Reqs : SF_vars(HandlerStep(r))
    /\ WF_vars(HcTick \/ HcProbe)

\* RunHealthChecks alone, started with any liveness flags, its sweeps
\* recorded, its context cancelled at any moment.
InitHc ==
    /\ algorithm \in Algorithms
    /\ isAlive \in [Backends -> BOOLEAN]
    /\ activeConns = [b \in Backends |-> 0]
    /\ current = 0
    /\ mu = 0
    /\ pc = <<>>
    /\ backend = <<>>
    /\ target = <<>>
    /\ attempts = <<>>
    /\ status = <<>>
    /\ scanIdx = 0
    /\ leastBusy = Nil
    /\ minConns = MaxInt
    /\ scanSeen = <<>>
    /\ failures = 0
    /\ hcPc = "wait"
    /\ hcIdx = 0
    /\ ctxDone = FALSE
    /\ cursor0 = 0
    /\ picks = <<>>
    /\ probeLog = <<>>
    /\ rrStart = <<>>
    /\ rrIdx = <<>>

NextHc == HcTickLogged \/ HcProbeLogged \/ Cancel \/ HcReturn

SpecHc == InitHc /\ [][NextHc]_vars

\* The same where a probe that was started returns and the select statement,
\* which picks among its ready cases at random, does not pass over a closed
\* ctx.Done() for ever.
SpecHcFair == SpecHc /\ WF_vars(HcProbeLogged) /\ SF_vars(HcReturn)

\* ------------------------------------------------------------ properties

\* A step in which request r's call of GetNextBackend returns, and what it
\* returns: ServeHTTP keeps the result in `backend`, the ErrorHandler serves
\* through it at once; a nil result leads to neither.
Selecting(r) == pc[r] \in {"start", "retry", "scan"}
SelectionReturns(r) == Selecting(r) /\ pc'[r] \notin {"start", "retry", "scan"}
Result(r) ==
    IF pc'[r] = "reserve" THEN backend'[r]
    ELSE IF pc'[r] = "forward" THEN target'[r]
    ELSE Nil

\* The step is the health check's probe of backend b.
ProbeOf(b) == hcPc = "sweep" /\ hcIdx = b

\* C1: a request makes at most two forwarding attempts over its whole life,
\* the primary one and a single retry; a failed retry ends in 503 and selects
\* no third backend.
C1_AtMostOneRetry == \A r \in DOMAIN pc : attempts[r] <= 2

\* C2: under each algorithm, a call of GetNextBackend (by ServeHTTP or by the
\* retry path) returns only a backend whose IsAlive is true when it returns.
C2_OnlyAliveSelected ==
    [][\A r \in DOMAIN pc :
          (SelectionReturns(r) /\ Result(r) # Nil) => isAlive[Result(r)]]_vars

C2_Witness ==
    \E r \in DOMAIN pc : \E b \in Backends :
        /\ pc[r] = "forward"
        /\ attempts[r] = 2
        /\ target[r] # backend[r]
        /\ isAlive[target[r]]
        /\ ~isAlive[b]

\* C3: when every backend is dead GetNextBackend returns nil under each
\* algorithm, and ServeHTTP then answers 503 without forwarding and without
\* changing any activeConns or IsAlive.
C3_AllDeadGives503 ==
    [][\A r \in DOMAIN pc :
          (SelectionReturns(r) /\ Available(isAlive) = {}) =>
              /\ Result(r) = Nil
              /\ status'[r] = "503"
              /\ activeConns' = activeConns
              /\ isAlive' = isAlive
              /\ attempts[r] = 0 =>
                    /\ pc'[r] = "done"
                    /\ backend'[r] = Nil
                    /\ target'[r] = Nil
                    /\ attempts'[r] = 0]_vars

C3_Witness ==
    /\ failures = 0
    /\ Available(isAlive) = {}
    /\ \A b \in Backends : activeConns[b] = 0
    /\ \E r \in DOMAIN pc : pc[r] = "done" /\ status[r] = "503"

\* C4: activeConns is never negative, it counts the requests between their
\* IncrementConn and their DecrementConn, and it is 0 for every backend when
\* no request is in flight, whatever the outcome of the requests.
C4_ConnsBalanced ==
    \A b \in Backends :
        /\ activeConns[b] >= 0
        /\ activeConns[b] =
              Cardinality({r \in DOMAIN pc : backend[r] = b /\ pc[r] # "reserve"})
        /\ (\A r \in DOMAIN pc : pc[r] \in {"start", "done"}) => activeConns[b] = 0

C4_Witness ==
    /\ failures = 2
    /\ \A b \in Backends : activeConns[b] = 0
    /\ \E r \in DOMAIN pc : pc[r] = "done" /\ status[r] = "503"

\* C5: activeConns of a backend equals the number of requests currently
\* assigned to it, retries included (stated where every request in flight is
\* being forwarded).
C5_ConnsMatchAssigned ==
    (\A r \in DOMAIN pc : pc[r] \in {"start", "forward", "done"}) =>
        \A b \in Backends :
            activeConns[b] =
                Cardinality({r \in DOMAIN pc : pc[r] = "forward" /\ target[r] = b})

\* C6: the backend selected for a request's retry is never the backend whose
\* forwarding just failed for that request.
C6_RetryAvoidsFailed ==
    [][\A r \in DOMAIN pc :
          (SelectionReturns(r) /\ attempts[r] > 0 /\ Result(r) # Nil) =>
              Result(r) # target[r]]_vars

\* C7: while a backend is dead no selection returns it and only the health
\* check's probe of it sets it alive again; IsAlive goes from true to false
\* only by that probe or by the failure path of a request forwarded to it.
C7_DeadUntilProbed ==
    [][\A b \in Backends :
          /\ ~isAlive[b] =>
                /\ \A r \in DOMAIN pc : SelectionReturns(r) => Result(r) # b
                /\ isAlive'[b] => ProbeOf(b)
          /\ (isAlive[b] /\ ~isAlive'[b]) =>
                \/ ProbeOf(b)
                \/ \E r \in DOMAIN pc :
                      pc[r] = "forward" /\ target[r] = b /\ pc'[r] = "retry"]_vars

C7_Witness ==
    /\ failures >= 1
    /\ hcPc = "wait"
    /\ \E r \in DOMAIN pc : pc[r] = "retry" /\ isAlive[target[r]]

\* The first alive backend in circular configured order from 0-based
\* position pos (some backend being alive).
aliveAfter(alive, pos) ==
    LET at(d) == ((pos + d) % NumBackends) + 1
        d0 == CHOOSE d \in 0..(NumBackends - 1) :
                  alive[at(d)] /\ \A e \in 0..(d - 1) : ~alive[at(e)]
    IN  at(d0)

\* C8: with liveness unchanged and k >= 1 backends alive, sequential
\* RoundRobin selections walk the alive backends in circular configured order
\* from the cursor, so any k consecutive ones return each alive backend once;
\* from cursor 0 with all alive, the first N return 1..N in order.
C8_RoundRobinCycle ==
    LET k == Cardinality(Available(isAlive))
    IN  k >= 1 =>
          /\ \A i \in 1..Len(picks) :
                picks[i] = aliveAfter(isAlive,
                               IF i = 1 THEN cursor0 % NumBackends
                                        ELSE picks[i - 1] % NumBackends)
          /\ \A i \in 1..(Len(picks) - k + 1) :
                /\ {picks[j] : j \in i..(i + k - 1)} = Available(isAlive)
                /\ \A j1, j2 \in i..(i + k - 1) : picks[j1] = picks[j2] => j1 = j2
          /\ (k = NumBackends /\ cursor0 = 0 /\ Len(picks) >= NumBackends) =>
                SubSeq(picks, 1, NumBackends) = [i \in 1..NumBackends |-> i]

C8_Witness ==
    /\ Len(picks) = MaxPicks
    /\ cursor0 % NumBackends # 0
    /\ Cardinality(Available(isAlive)) = 2
    /\ ~isAlive[(picks[1] % NumBackends) + 1]

\* A LeastConnections selection of request r returns in this step; the scan
\* has then read the values `SeenAtReturn`, one per backend.
LcReturns(r) == algorithm = LeastConnections /\ SelectionReturns(r)
SeenAtReturn == Append(scanSeen, seenOf(NumBackends))

\* C9 as stated: the backend LeastConnections returns has, at the instant the
\* selection returns, activeConns <= that of every alive backend, the
\* earliest in configured order among those tied.
C9_MinAtSelection ==
    [][\A r \in DOMAIN pc :
          (LcReturns(r) /\ Result(r) # Nil) =>
              \A c \in Backends :
                  isAlive[c] =>
                      /\ activeConns[Result(r)] <= activeConns[c]
                      /\ activeConns[c] = activeConns[Result(r)] => Result(r) <= c]_vars

\* C9 amended: the backend LeastConnections returns is alive and the value
\* the scan read for it is <= the value read for every alive backend, the
\* earliest among those read equal; nil is returned exactly when none is alive.
C9_MinOfValuesRead ==
    [][\A r \in DOMAIN pc :
          LcReturns(r) =>
              LET seen == SeenAtReturn
                  b == Result(r)
              IN  IF \A c \in Backends : seen[c] < 0
                  THEN b = Nil
                  ELSE /\ b # Nil
                       /\ isAlive[b]
                       /\ seen[b] >= 0
                       /\ \A c \in Backends :
                             seen[c] >= 0 =>
                                 /\ seen[b] <= seen[c]
                                 /\ seen[c] = seen[b] => b <= c]_vars

C9_Witness ==
    /\ algorithm = LeastConnections
    /\ isAlive[1]
    /\ activeConns[1] = 1
    /\ activeConns[2] = 0
    /\ \E r \in DOMAIN pc : pc[r] = "reserve" /\ backend[r] = 2

\* C10: a selection reads the liveness flags as they are when it is made, so
\* a backend the health check has just set alive is eligible in the very next
\* selection: some alive backend is returned whenever one is alive, and an
\* only alive backend is the one returned.
C10_RecoveredSelectable ==
    [][\A r \in DOMAIN pc :
          SelectionReturns(r) =>
              /\ Available(isAlive) # {} => Result(r) \in Available(isAlive)
              /\ \A b \in Backends : Available(isAlive) = {b} => Result(r) = b]_vars

C10_Witness ==
    \E r \in DOMAIN pc :
        /\ pc[r] = "forward"
        /\ attempts[r] = 2
        /\ target[r] = backend[r]
        /\ Available(isAlive) = {target[r]}

\* C11: every sweep probes every configured backend once, in configured
\* order and whatever its IsAlive, and from the moment the probe of b has
\* been processed IsAlive of b is the probe's classification: true exactly
\* when client.Get gave no error (no timeout) and a status below 400.
C11_ProbeSetsLiveness ==
    /\ hcPc = "sweep" => Len(probeLog) = hcIdx - 1
    /\ hcPc # "sweep" => Len(probeLog) \in {0, NumBackends}
    /\ \A i \in 1..Len(probeLog) :
          /\ probeLog[i].backend = i
          /\ isAlive[i] = (~probeLog[i].resp.err /\ probeLog[i].resp.StatusCode < 400)

C11_Witness ==
    /\ hcPc = "wait"
    /\ Len(probeLog) = NumBackends
    /\ ~probeLog[1].wasAlive /\ probeLog[1].resp.StatusCode = 399 /\ isAlive[1]
    /\ probeLog[2].wasAlive /\ probeLog[2].resp.StatusCode = 400 /\ ~isAlive[2]
    /\ probeLog[NumBackends].wasAlive /\ probeLog[NumBackends].resp.err

\* C12: every request that enters ServeHTTP eventually completes, with a
\* backend response or a 503, whatever forwards fail and whatever the probes
\* answer.
C12_RequestCompletes == \A r \in Reqs : <>(pc[r] = "done")

\* C13: when the backend answers with an HTTP error status the response is
\* passed through as the request's answer: that step changes no IsAlive, no
\* cursor and no counter, and the request selects and contacts no other
\* backend afterwards (it only returns through the deferred DecrementConn).
C13_ErrorStatusPassedThrough ==
    [][\A r \in DOMAIN pc :
          /\ (pc[r] = "forward" /\ status'[r] \in ErrorStatus) =>
                /\ pc'[r] = "release"
                /\ target'[r] = Nil
                /\ isAlive' = isAlive
                /\ current' = current
                /\ activeConns' = activeConns
          /\ status[r] \in ErrorStatus =>
                /\ status'[r] = status[r]
                /\ pc[r] \in {"release", "done"}
                /\ pc'[r] \in {"release", "done"}
                /\ target'[r] = Nil]_vars

C13_Witness ==
    \E r \in DOMAIN pc :
        /\ status[r] = "500"
        /\ pc[r] = "done"
        /\ failures = 0
        /\ \A b \in Backends : isAlive[b] /\ activeConns[b] = 0

\* C14: a call of getRoundRobinBackend examines the backends at cursor,
\* cursor + 1, ... (mod N), at most N of them; it returns the first alive one
\* in that order and leaves the cursor just past it; when none is alive it
\* returns nil with the cursor advanced by at least one.
C14_FirstAliveFromCursor ==
    [][Len(picks') = Len(picks) + 1 =>
          LET b == picks'[Len(picks')]
              examined == current' - current
          IN  /\ examined >= 1
              /\ examined <= NumBackends
              /\ \A d \in 0..(examined - 2) :
                     ~isAlive[((current + d) % NumBackends) + 1]
              /\ IF Available(isAlive) = {}
                 THEN b = Nil
                 ELSE /\ b # Nil
                      /\ isAlive[b]
                      /\ b = ((current + examined - 1) % NumBackends) + 1
                      /\ current' % NumBackends = b % NumBackends]_vars

C14_Witness ==
    /\ Len(picks) >= 1
    /\ picks[1] # Nil
    /\ current = cursor0 + NumBackends
    /\ Cardinality(Available(isAlive)) = 1

\* C15: the round-robin scan of cmd/balancer/main.go and of RoundRobinAlgo
\* takes at most len(backends) steps: whoever holds the lock for a scan has
\* advanced the cursor by at most N since the scan began.
C15_ScanWithinOneRound ==
    \A p \in DOMAIN pc : mu = p => current - rrStart[p] <= NumBackends

\* C16: with all N backends alive, concurrent RoundRobin selections lose no
\* cursor update: after m selections the cursor is its initial value plus m,
\* and any N selections in a row return N distinct backends.
C16_NoLostCursorUpdate ==
    (\A b \in Backends : isAlive[b]) =>
        /\ current = cursor0 + Len(picks)
        /\ \A i \in 1..(Len(picks) - NumBackends + 1) :
              \A j1, j2 \in i..(i + NumBackends - 1) :
                  picks[j1] = picks[j2] => j1 = j2

C16_Witness ==
    /\ \A b \in Backends : isAlive[b]
    /\ Len(picks) >= NumBackends + 1
    /\ \E p, q \in DOMAIN pc : pc[p] = "check" /\ pc[q] = "start" /\ rrStart[p] = rrStart[q] + 1

\* C17: once the context of RunHealthChecks is cancelled the function
\* eventually returns, and having returned it runs no further sweep.
C17_ReturnsAfterCancel == ctxDone ~> [](hcPc = "returned")

C17_Witness ==
    /\ hcPc = "returned"
    /\ ctxDone
    /\ Len(probeLog) = NumBackends
    /\ mu = 0

\* C18: once the cancellation signal has fired the health monitor starts no
\* further probe and changes no IsAlive, even in the middle of a sweep.  A
\* probe that follows one which returned after the signal was certainly
\* started after the signal.
C18_NoProbeAfterCancel ==
    [][(/\ ctxDone
        /\ Len(probeLog) >= 1
        /\ probeLog[Len(probeLog)].afterCancel) =>
            /\ Len(probeLog') <= Len(probeLog)
            /\ isAlive' = isAlive]_vars

\* C19: no handler holds lb.mu while a forward of its request is in flight,
\* on the first attempt or on a retry: a handler holds the lock only inside
\* a selection (the marking of the ErrorHandler is over when its step is),
\* so the lock is free, or held by someone else, during every forward.
C19_NoLockWhileForwarding ==
    \A r \in DOMAIN pc :
        /\ pc[r] \in {"reserve", "forward", "retry", "release", "done"} => mu # r
        /\ mu = r => pc[r] = "scan"

C19_Witness ==
    \E r \in DOMAIN pc :
        /\ pc[r] = "forward"
        /\ attempts[r] = 2
        /\ mu = HcId
        /\ hcIdx = NumBackends

\* A step of request r's handler in Spec.
ServeStep(r) ==
    \/ GetNextBackendRR(r)
    \/ GetNextBackendRandom(r)
    \/ LeastBusyLock(r)
    \/ LeastBusyScan(r)
    \/ Reserve(r)
    \/ ForwardOk(r)
    \/ ErrorHandler(r)
    \/ Release(r)

\* C20: no deadlock.  lb.mu is free or held by a process inside its critical
\* section, and that process can take its next step; every handler that has
\* not finished can take a step or waits for lb.mu held by such a process;
\* the health monitor can take a step or waits for lb.mu likewise.
C20_NoDeadlock ==
    /\ mu \in {0, HcId} \cup DOMAIN pc
    /\ mu = HcId => (hcPc = "sweep" /\ ENABLED HcProbe)
    /\ hcPc = "sweep" => mu = HcId
    /\ \A r \in DOMAIN pc :
          /\ mu = r => (pc[r] = "scan" /\ ENABLED LeastBusyScan(r))
          /\ pc[r] # "done" => (mu \notin {0, r} \/ ENABLED ServeStep(r))
    /\ hcPc = "wait" => (mu # 0 \/ ENABLED HcTick)

C20_Witness ==
    \E r \in DOMAIN pc :
        /\ pc[r] = "retry"
        /\ mu = HcId
        /\ hcIdx = 1
        /\ activeConns[backend[r]] = 1

\* C21: the failure path of a request forwarded to backend X marks X dead and
\* nothing else: in the step that marks it, IsAlive of every other backend
\* and every activeConns are unchanged (the list of backends is fixed after
\* NewLoadBalancer).
C21_OnlyFailedMarkedDead ==
    [][\A r \in DOMAIN pc :
          (pc[r] = "forward" /\ pc'[r] = "retry") =>
              /\ ~isAlive'[target[r]]
              /\ \A b \in Backends \ {target[r]} : isAlive'[b] = isAlive[b]
              /\ activeConns' = activeConns
              /\ DOMAIN isAlive' = Backends
              /\ DOMAIN activeConns' = Backends]_vars

C21_Witness ==
    \E r \in DOMAIN pc :
        /\ pc[r] = "retry"
        /\ failures = 1
        /\ hcPc = "wait"
        /\ Available(isAlive) = Backends \ {target[r]}
        /\ activeConns[target[r]] = 1

\* C22: one request marks at most two backends dead, so with more than two
\* backends alive and healthy the other requests still find one: where only
\* the forwards of one request fail, at most two backends are dead and no
\* other request is answered 503.
C22_AtMostTwoMarkedDead ==
    /\ Cardinality(Backends \ Available(isAlive)) <= 2
    /\ \A r \in DOMAIN pc \ {FailingReq} : status[r] # "503"

====
